---- MODULE Spec2Model ----
(***************************************************************************)
(* pipelab: the artifact stores, the Pipeline engine (parameter binding,   *)
(* run, ancestor lookup), the cache wrappers and the PipelineComposition   *)
(* scheduler, as one state machine.  Python is single-threaded here: one   *)
(* call runs to completion before the next starts, so every API call is    *)
(* one action, except run(), whose loop is one action per iteration.       *)
(***************************************************************************)
EXTENDS Integers, Sequences, FiniteSets, TLC

VARIABLES
    steps,            \* Pipeline.steps: [Pipelines -> Seq(StepIds)]
    backend,          \* which ArtifactManager a pipeline was built with
    pname,            \* Pipeline.name (the disk store's directory name)
    artifacts,        \* artifact_manager.artifacts: name -> value (memory) or name -> path (disk)
    fs_dirs,          \* the directories that exist under /tmp/
    fs_files,         \* the files that exist: <<dir, name>> -> pickled value
    finished,         \* Pipeline.finished
    parents,          \* Pipeline._parents: a list of pipelines
    processed_stack,  \* Pipeline._processed_stack
    cur,              \* the run() in progress: its pipeline and loop index
    runlog,           \* history: what each iteration of the run in progress bound and returned
    stack0,           \* history: _processed_stack when the run in progress (or the last run) began
    out,              \* the outcome of the last call: value returned or exception raised
    nops,             \* number of API calls made so far
    comp_pipelines,   \* PipelineComposition.pipelines of each composition built: the dict as a list of <<parent, children>>
    crun,             \* the last PipelineComposition.run(): its order, its position, the run() calls it made
    step_dict,        \* the __dict__ of each cache-wrapped step: _name and value
    cache_dir,        \* InDiskCacheWrapper.cache_dir of the disk wrapper of each step
    cache,            \* InMemoryCacheWrapper.cache, the class attribute: key -> result
    cache_files,      \* the disk cache: <<cache_dir, key>> -> pickled result
    calls,            \* history: the wrapper calls made, with what each derived and returned
    store_log,        \* history: the calls made on one artifact manager (or on one of each
                      \* backend side by side), with what each returned
    inverse_log,      \* history: the last reverse_steps call: the stack it found, its calls, its result
    writing           \* per caller, the disk-cache file it has opened and not yet written

vars == <<steps, backend, pname, artifacts, fs_dirs, fs_files, finished, parents,
          processed_stack, cur, runlog, stack0, out, nops, comp_pipelines, crun,
          step_dict, cache_dir, cache, cache_files, calls, store_log, inverse_log, writing>>

constructed == <<steps, backend, pname>>
compVars == <<comp_pipelines, crun>>
cacheVars == <<step_dict, cache_dir, cache, cache_files, calls>>
pipelineVars == <<steps, backend, pname, artifacts, fs_dirs, fs_files, finished, parents,
                  processed_stack, cur, runlog, stack0, comp_pipelines, crun, store_log, inverse_log, writing>>

(***************************************************************************)
(* Bounds and inputs.                                                      *)
(***************************************************************************)
Pipelines == {"P1", "P2", "P3"}
Names == {"x", "y", "z"}
ArgNames == {"x", "y"}
MaxOps == 4
MaxDepth == 4
NoneVal == -1
\* the default a caller of get_artifact passes
Defaults == {99}

\* The value a caller saves through pipeline p (distinct per pipeline, so a
\* lookup's result tells which store it came from).
SaveVal(p) == CASE p = "P1" -> 10 [] p = "P2" -> 20 [] OTHER -> 30

(***************************************************************************)
(* Results of calls: a returned value or a raised exception.               *)
(***************************************************************************)
Ok(v) == [kind |-> "ok", exc |-> "", name |-> "", val |-> v]
Raise(e, n) == [kind |-> "raise", exc |-> e, name |-> n, val |-> NoneVal]

(***************************************************************************)
(* Steps.  A step declares its execute() parameters (besides `pipeline`):  *)
(* required ones (no default) and optional ones (with a default), and      *)
(* returns a mapping of artifacts or raises.                               *)
(***************************************************************************)
StepIds == {"mk", "inc", "opt", "boom"}

\* inspect.signature(step.execute).parameters, in declaration order
get_execute_params(s) ==
    CASE s = "inc" -> << [name |-> "x", has_default |-> FALSE, default |-> NoneVal] >>
      [] s = "opt" -> << [name |-> "y", has_default |-> TRUE, default |-> 0] >>
      [] OTHER -> << >>

\* step.execute(**params): mk() -> {x: 1}; inc(x) -> {y: x + 1};
\* opt(y=0) -> {z: y}; boom() raises.
execute(s, params) ==
    CASE s = "mk" -> [kind |-> "ok", exc |-> "", arts |-> ("x" :> 1)]
      [] s = "inc" -> [kind |-> "ok", exc |-> "", arts |-> ("y" :> (params["x"] + 1))]
      [] s = "opt" -> [kind |-> "ok", exc |-> "", arts |-> ("z" :> params["y"])]
      [] OTHER -> [kind |-> "raise", exc |-> "StepError", arts |-> << >>]

(***************************************************************************)
(* ArtifactInMemory / ArtifactInDisk.                                      *)
(***************************************************************************)
\* ArtifactInDisk.directory = os.path.join(directory, pipeline_name)
directory(p) == pname[p]

\* os.path.join(self.directory, artifact_name)
artifact_path(p, n) ==
    IF n \in DOMAIN artifacts[p] THEN artifacts[p][n] ELSE <<directory(p), n>>

\* os.path.exists(path) of an artifact file
path_exists(path) == path \in DOMAIN fs_files

\* artifact_manager.get_artifact(name, default, raise_not_found)
manager_get(p, n, default, raise_not_found) ==
    IF backend[p] = "mem"
    THEN IF raise_not_found /\ n \notin DOMAIN artifacts[p]
         THEN Raise("ArtifactNotFoundError", n)
         ELSE IF n \in DOMAIN artifacts[p] THEN Ok(artifacts[p][n]) ELSE Ok(default)
    ELSE IF raise_not_found /\ ~path_exists(artifact_path(p, n))
         THEN Raise("ArtifactNotFoundError", n)
         ELSE IF ~path_exists(artifact_path(p, n))
              THEN Ok(default)
              ELSE Ok(fs_files[artifact_path(p, n)])

(***************************************************************************)
(* Pipeline.get_artifact: the own store first; on ArtifactNotFoundError    *)
(* each registered parent in turn, recursively.  Only a lookup that raises *)
(* reaches the except branch.  fuel is the interpreter's recursion limit:  *)
(* RecursionError is not an ArtifactNotFoundError and passes every handler.*)
(***************************************************************************)
RECURSIVE get_artifact_rec(_, _, _, _, _)
RECURSIVE scan_parents(_, _, _, _, _, _)

get_artifact_rec(p, n, default, raise_not_found, fuel) ==
    IF fuel = 0
    THEN Raise("RecursionError", n)
    ELSE LET own == manager_get(p, n, default, raise_not_found)
         IN  IF own.kind = "ok"
             THEN own
             ELSE scan_parents(p, n, default, raise_not_found, 1, fuel)

\* the `for parent in self.parents` loop of the except branch, from index i
scan_parents(p, n, default, raise_not_found, i, fuel) ==
    IF i > Len(parents[p])
    THEN IF raise_not_found THEN Raise("ArtifactNotFoundError", n) ELSE Ok(default)
    ELSE LET r == get_artifact_rec(parents[p][i], n, default, raise_not_found, fuel - 1)
         IN  IF r.kind = "ok"
             THEN r
             ELSE IF r.exc = "ArtifactNotFoundError"
                  THEN scan_parents(p, n, default, raise_not_found, i + 1, fuel)
                  ELSE r

\* mutant: the parents are never asked
get_artifact_own_only(p, n, default, raise_not_found) ==
    manager_get(p, n, default, raise_not_found)

get_artifact(p, n, default, raise_not_found) ==
    get_artifact_rec(p, n, default, raise_not_found, MaxDepth)

(***************************************************************************)
(* Pipeline.__fill_params_from_step: a required parameter is looked up     *)
(* with raise_not_found=True, an optional one with its default and         *)
(* raise_not_found=False.  The result carries the bound params.            *)
(***************************************************************************)
bind_param(p, prm) ==
    IF prm.has_default
    THEN get_artifact(p, prm.name, prm.default, FALSE)
    ELSE get_artifact(p, prm.name, NoneVal, TRUE)

RECURSIVE fill_from(_, _, _, _)
fill_from(p, prms, i, acc) ==
    IF i > Len(prms)
    THEN [kind |-> "ok", exc |-> "", name |-> "", params |-> acc]
    ELSE LET r == bind_param(p, prms[i])
         IN  IF r.kind = "ok"
             THEN fill_from(p, prms, i + 1, (prms[i].name :> r.val) @@ acc)
             ELSE [kind |-> "raise", exc |-> r.exc, name |-> r.name, params |-> acc]

fill_params_from_step(p, s) == fill_from(p, get_execute_params(s), 1, << >>)

(***************************************************************************)
(* Saving: Pipeline.save_artifact / __save_step_artifacts.  On disk,       *)
(* open(path, "wb") fails when the directory does not exist.               *)
(***************************************************************************)
save_fails(p, arts) ==
    backend[p] = "disk" /\ DOMAIN arts # {} /\ directory(p) \notin fs_dirs

\* mutant: a save under a name the store holds does not replace the entry
saved_index_first_wins(p, arts) ==
    IF backend[p] = "mem"
    THEN artifacts[p] @@ arts
    ELSE [n \in DOMAIN arts |-> <<directory(p), n>>] @@ artifacts[p]

\* artifact_manager.artifacts after every key of arts was saved
saved_index(p, arts) ==
    IF backend[p] = "mem"
    THEN arts @@ artifacts[p]
    ELSE [n \in DOMAIN arts |-> <<directory(p), n>>] @@ artifacts[p]

\* the files after every key of arts was saved
saved_files(p, arts) ==
    IF backend[p] = "mem"
    THEN fs_files
    ELSE [path \in {<<directory(p), n>> : n \in DOMAIN arts} |-> arts[path[2]]] @@ fs_files

(***************************************************************************)
(* The cache wrappers.  The wrapped steps are DummyStepForCache objects:   *)
(* __dict__ = {_name, value}, execute(self, x=0) returns self.value + x.   *)
(* cloudpickle.dumps and sha256 are taken to be injective: the key is the  *)
(* structure that is serialized.                                           *)
(***************************************************************************)
WSteps == {"S1", "S2"}
StepNames == {"a", "b"}
Values == {1, 2}
\* values cloudpickle.dumps cannot encode (a lock, an open file), as an
\* argument or as the step's value
Unpicklables == {-2}

\* the ways execute is called: no argument, x positionally, x by keyword
CallShapes ==
    { [form |-> "omit", x |-> 0], [form |-> "pos", x |-> 0],
      [form |-> "kw", x |-> 0], [form |-> "pos", x |-> 1] }

\* inspect.signature(self.step.execute).parameters
cached_execute_params == << [name |-> "x", has_default |-> TRUE, default |-> 0] >>

\* inspect.signature(...).bind(*args, **kwargs).arguments
bind(shape) == IF shape.form = "omit" THEN << >> ELSE ("x" :> shape.x)

\* mutant: the arguments hashed as bound, without apply_defaults()
apply_defaults_skipped(arguments) == arguments

\* BoundArguments.apply_defaults(): arguments is rebuilt from the signature's
\* parameters alone, each with its bound value or else its default
apply_defaults(arguments) ==
    LET prms == cached_execute_params
        kept == {i \in 1..Len(prms) : prms[i].name \in DOMAIN arguments \/ prms[i].has_default}
    IN  [n \in {prms[i].name : i \in kept} |->
            IF n \in DOMAIN arguments
            THEN arguments[n]
            ELSE LET i == CHOOSE j \in kept : prms[j].name = n IN prms[i].default]

\* bound.arguments.update(init_params)
update(arguments, init_params) == init_params @@ arguments

\* mutant: the step's __dict__ left out of what is hashed
disk_hash_key_args_only(s, shape) == <<apply_defaults(bind(shape)), << >> >>

\* the structure InDiskCacheWrapper.execute serializes and hashes:
\* dumps(bound.arguments) + dumps(init_params), after apply_defaults
disk_hash_key(s, shape) == <<apply_defaults(bind(shape)), step_dict[s]>>

\* the structure InMemoryCacheWrapper.execute serializes and hashes:
\* update(init_params), then apply_defaults, then dumps(bound.arguments)
memory_hash_key(s, shape) == apply_defaults(update(bind(shape), step_dict[s]))

\* cloudpickle.dumps(mapping) raises (_name holds a string, always encodable)
dumps_fails(mapping) ==
    \E k \in DOMAIN mapping \ {"_name"} : mapping[k] \in Unpicklables

\* the try block of InDiskCacheWrapper.execute raises:
\* dumps(bound.arguments) or dumps(init_params)
disk_serialize_fails(s, shape) ==
    dumps_fails(apply_defaults(bind(shape))) \/ dumps_fails(step_dict[s])

\* the try block of InMemoryCacheWrapper.execute raises: dumps(bound.arguments)
memory_serialize_fails(s, shape) ==
    dumps_fails(apply_defaults(update(bind(shape), step_dict[s])))

\* self.step.execute(*args, **kwargs)
step_execute(s, shape) ==
    step_dict[s]["value"] + (IF shape.form = "omit" THEN 0 ELSE shape.x)

\* self.value + x raises TypeError when an operand is not a number
body_raises(s, shape) ==
    \/ step_dict[s]["value"] \in Unpicklables
    \/ shape.form # "omit" /\ shape.x \in Unpicklables

CallRecord(kind, s, shape, key, hit, result) ==
    [kind |-> kind, step |-> s, dict |-> step_dict[s], shape |-> shape, key |-> key,
     hit |-> hit, result |-> result, exc |-> "", ran |-> ~hit]

\* a call that raised exc, having run the body or not
FailedCall(kind, s, shape, exc, ran) ==
    [kind |-> kind, step |-> s, dict |-> step_dict[s], shape |-> shape, key |-> << >>,
     hit |-> FALSE, result |-> NoneVal, exc |-> exc, ran |-> ran]

\* InDiskCacheWrapper.execute
DiskExecute(s, shape) ==
    /\ nops < MaxOps
    /\ nops' = nops + 1
    /\ LET key == disk_hash_key(s, shape)
           cache_file == <<cache_dir[s], key>>
       IN  IF disk_serialize_fails(s, shape)
           THEN /\ calls' = Append(calls, FailedCall("disk", s, shape, "ValueError", FALSE))
                /\ UNCHANGED cache_files
           ELSE IF cache_file \in DOMAIN cache_files
           THEN /\ calls' = Append(calls, CallRecord("disk", s, shape, key, TRUE,
                                                      cache_files[cache_file]))
                /\ UNCHANGED cache_files
           ELSE IF body_raises(s, shape)
           THEN /\ calls' = Append(calls, FailedCall("disk", s, shape, "TypeError", TRUE))
                /\ UNCHANGED cache_files
           ELSE /\ calls' = Append(calls, CallRecord("disk", s, shape, key, FALSE,
                                                      step_execute(s, shape)))
                /\ cache_files' = (cache_file :> step_execute(s, shape)) @@ cache_files
    /\ UNCHANGED <<pipelineVars, out, step_dict, cache_dir, cache>>

\* InMemoryCacheWrapper.execute
MemoryExecute(s, shape) ==
    /\ nops < MaxOps
    /\ nops' = nops + 1
    /\ LET key == memory_hash_key(s, shape)
       IN  IF memory_serialize_fails(s, shape)
           THEN /\ calls' = Append(calls, FailedCall("mem", s, shape, "ValueError", FALSE))
                /\ UNCHANGED cache
           ELSE IF key \in DOMAIN cache
           THEN /\ calls' = Append(calls, CallRecord("mem", s, shape, key, TRUE, cache[key]))
                /\ UNCHANGED cache
           ELSE IF body_raises(s, shape)
           THEN /\ calls' = Append(calls, FailedCall("mem", s, shape, "TypeError", TRUE))
                /\ UNCHANGED cache
           ELSE /\ calls' = Append(calls, CallRecord("mem", s, shape, key, FALSE,
                                                      step_execute(s, shape)))
                /\ cache' = (key :> step_execute(s, shape)) @@ cache
    /\ UNCHANGED <<pipelineVars, out, step_dict, cache_dir, cache_files>>

\* step.value = v
SetValue(s, v) ==
    /\ nops < MaxOps
    /\ nops' = nops + 1
    /\ step_dict[s]["value"] # v
    /\ step_dict' = [step_dict EXCEPT ![s]["value"] = v]
    /\ UNCHANGED <<pipelineVars, out, cache_dir, cache, cache_files, calls>>

\* step.name = nm (the name setter writes _name)
SetName(s, nm) ==
    /\ nops < MaxOps
    /\ nops' = nops + 1
    /\ step_dict[s]["_name"] # nm
    /\ step_dict' = [step_dict EXCEPT ![s]["_name"] = nm]
    /\ UNCHANGED <<pipelineVars, out, cache_dir, cache, cache_files, calls>>

\* two steps built and wrapped: S1 = DummyStepForCache("a", 1),
\* S2 = DummyStepForCache("b", 2); the caches are empty
CacheConstructed ==
    /\ step_dict = [s \in WSteps |->
                      IF s = "S1" THEN ("_name" :> "a") @@ ("value" :> 1)
                                  ELSE ("_name" :> "b") @@ ("value" :> 2)]
    /\ cache_dir = [s \in WSteps |-> IF s = "S1" THEN "a" ELSE "b"]
    /\ cache = << >>
    /\ cache_files = << >>
    /\ calls = << >>

(***************************************************************************)
(* The state after construction.  Pipeline(name, steps, storage mode):     *)
(* all three pipelines in memory, or all three on disk (ArtifactInDisk     *)
(* creates its directory), there P1 and P2 both left at the default name   *)
(* and P3 given a name of its own.                                         *)
(***************************************************************************)
Idle == [p |-> "-", k |-> 0]

NoOut ==
    [op |-> "init", p |-> "-", kind |-> "ok", exc |-> "", name |-> "", val |-> NoneVal,
     k |-> 0, rnf |-> FALSE]

Callers == {"c1", "c2"}
NoWrite == [step |-> "-", shape |-> << >>, key |-> << >>, file |-> << >>, result |-> NoneVal]
NoWriting == [c \in Callers |-> NoWrite]

NoReverse == [p |-> "-", stack |-> << >>, seed |-> << >>, calls |-> << >>, ret |-> << >>]

NoCrun == [c |-> "-", order |-> << >>, i |-> 0, log |-> << >>, active |-> FALSE]

DefaultNames == [p \in Pipelines |-> "default_pipeline"]
SharedNames == [p \in Pipelines |-> IF p = "P3" THEN p ELSE "default_pipeline"]

Constructions ==
    { [backend |-> [p \in Pipelines |-> "mem"], pname |-> DefaultNames],
      [backend |-> [p \in Pipelines |-> "disk"], pname |-> SharedNames] }

StepPlan ==
    [p \in Pipelines |->
        CASE p = "P1" -> <<"mk", "inc", "opt">>
          [] p = "P2" -> <<"opt", "inc">>
          [] OTHER -> <<"opt", "boom">>]

InitPipelines ==
    /\ \E c \in Constructions :
        /\ backend = c.backend
        /\ pname = c.pname
        /\ fs_dirs = {c.pname[p] : p \in {q \in Pipelines : c.backend[q] = "disk"}}
    /\ steps = StepPlan
    /\ artifacts = [p \in Pipelines |-> << >>]
    /\ fs_files = << >>
    /\ finished = [p \in Pipelines |-> FALSE]
    /\ parents = [p \in Pipelines |-> << >>]
    /\ processed_stack = [p \in Pipelines |-> << >>]
    /\ cur = Idle
    /\ runlog = << >>
    /\ stack0 = << >>
    /\ out = NoOut
    /\ nops = 0
    /\ comp_pipelines = << >>
    /\ crun = NoCrun
    /\ CacheConstructed
    /\ store_log = << >>
    /\ inverse_log = NoReverse
    /\ writing = NoWriting

Init == InitPipelines

\* a new API call may start: nothing is running and the call budget is left
CanCall == cur = Idle /\ ~crun.active /\ nops < MaxOps

Returned(op, p, r) ==
    [op |-> op, p |-> p, kind |-> r.kind, exc |-> r.exc, name |-> r.name, val |-> r.val,
     k |-> 0, rnf |-> FALSE]

(***************************************************************************)
(* Pipeline.add_parent                                                     *)
(***************************************************************************)
add_parent(lst, parent) ==
    IF \E i \in 1..Len(lst) : lst[i] = parent THEN lst ELSE Append(lst, parent)

AddParent(p, q) ==
    /\ CanCall
    /\ parents' = [parents EXCEPT ![p] = add_parent(parents[p], q)]
    /\ out' = Returned("add_parent", p, Ok(NoneVal))
    /\ nops' = nops + 1
    /\ UNCHANGED <<constructed, artifacts, fs_dirs, fs_files, finished,
                   processed_stack, cur, runlog, stack0, compVars, cacheVars, store_log, inverse_log, writing>>

(***************************************************************************)
(* Pipeline.save_artifact(name, value)                                     *)
(***************************************************************************)
SaveArtifact(p, n) ==
    /\ CanCall
    /\ LET arts == (n :> SaveVal(p))
       IN  IF save_fails(p, arts)
           THEN /\ out' = Returned("save_artifact", p, Raise("FileNotFoundError", n))
                /\ UNCHANGED <<artifacts, fs_files>>
           ELSE /\ artifacts' = [artifacts EXCEPT ![p] = saved_index(p, arts)]
                /\ fs_files' = saved_files(p, arts)
                /\ out' = Returned("save_artifact", p, Ok(NoneVal))
    /\ nops' = nops + 1
    /\ UNCHANGED <<constructed, fs_dirs, finished, parents,
                   processed_stack, cur, runlog, stack0, compVars, cacheVars, store_log, inverse_log, writing>>

(***************************************************************************)
(* Pipeline.get_artifact(name, default, raise_not_found)                   *)
(***************************************************************************)
GetArtifact(p, n, default, raise_not_found) ==
    /\ CanCall
    /\ out' = [Returned("get_artifact", p, get_artifact(p, n, default, raise_not_found))
                  EXCEPT !.name = n, !.rnf = raise_not_found]
    /\ nops' = nops + 1
    /\ UNCHANGED <<constructed, artifacts, fs_dirs, fs_files, finished, parents,
                   processed_stack, cur, runlog, stack0, compVars, cacheVars, store_log, inverse_log, writing>>

(***************************************************************************)
(* Pipeline.clear: artifact_manager.clear(), then finished = False.        *)
(* ArtifactInDisk.clear removes the files its index names, empties the     *)
(* index and rmdir()s the directory, which raises OSError when another     *)
(* file is left in it; finished is then not reset.                         *)
(***************************************************************************)
indexed_paths(p) == {artifact_path(p, n) : n \in DOMAIN artifacts[p]}

files_after_clear(p) ==
    [path \in DOMAIN fs_files \ indexed_paths(p) |-> fs_files[path]]

rmdir_fails(p) ==
    /\ directory(p) \in fs_dirs
    /\ \E path \in DOMAIN files_after_clear(p) : path[1] = directory(p)

Clear(p) ==
    /\ CanCall
    /\ artifacts' = [artifacts EXCEPT ![p] = << >>]
    /\ IF backend[p] = "mem"
       THEN /\ finished' = [finished EXCEPT ![p] = FALSE]
            /\ out' = Returned("clear", p, Ok(NoneVal))
            /\ UNCHANGED <<fs_dirs, fs_files>>
       ELSE /\ fs_files' = files_after_clear(p)
            /\ IF rmdir_fails(p)
               THEN /\ out' = Returned("clear", p, Raise("OSError", ""))
                    /\ UNCHANGED <<fs_dirs, finished>>
               ELSE /\ fs_dirs' = fs_dirs \ {directory(p)}
                    /\ finished' = [finished EXCEPT ![p] = FALSE]
                    /\ out' = Returned("clear", p, Ok(NoneVal))
    /\ nops' = nops + 1
    /\ UNCHANGED <<constructed, parents, processed_stack, cur, runlog, stack0, compVars, cacheVars, store_log, inverse_log, writing>>

(***************************************************************************)
(* Pipeline.run.  RunSkip: the call on a finished pipeline.  RunBegin: the *)
(* call passes the finished check.  RunStep: one iteration of the loop     *)
(* (bind, execute, save, push).  RunEnd: the loop is over, finished = True.*)
(***************************************************************************)
\* mutant: run() without its finished check
never_skips(p) == FALSE

skips_run(p) == finished[p]

RunOut(p, kind, exc, n, k) ==
    [op |-> "run", p |-> p, kind |-> kind, exc |-> exc, name |-> n, val |-> NoneVal,
     k |-> k, rnf |-> FALSE]

RunSkip(p) ==
    /\ CanCall
    /\ skips_run(p)
    /\ out' = RunOut(p, "skipped", "", "", 0)
    /\ nops' = nops + 1
    /\ UNCHANGED <<constructed, artifacts, fs_dirs, fs_files, finished, parents,
                   processed_stack, cur, runlog, stack0, compVars, cacheVars, store_log, inverse_log, writing>>

RunBegin(p) ==
    /\ CanCall
    /\ ~skips_run(p)
    /\ cur' = [p |-> p, k |-> 1]
    /\ runlog' = << >>
    /\ stack0' = processed_stack[p]
    /\ out' = RunOut(p, "running", "", "", 0)
    /\ nops' = nops + 1
    /\ UNCHANGED <<constructed, artifacts, fs_dirs, fs_files, finished, parents,
                   processed_stack, compVars, cacheVars, store_log, inverse_log, writing>>

\* mutant: a composition run catches the failure and goes on with the next
\* pipeline of the order
RunFailsIsolated(p, exc, n) ==
    /\ out' = RunOut(p, "raise", exc, n, cur.k)
    /\ cur' = Idle
    /\ crun' = IF crun.active
               THEN [crun EXCEPT !.i = @ + 1, !.log = Append(@, <<"raise", p>>)]
               ELSE crun
    /\ UNCHANGED <<artifacts, fs_files, processed_stack, runlog>>

\* the exception leaves run() (and a PipelineComposition.run() around it)
RunFails(p, exc, n) ==
    /\ out' = RunOut(p, "raise", exc, n, cur.k)
    /\ cur' = Idle
    /\ crun' = IF crun.active
               THEN [crun EXCEPT !.active = FALSE, !.log = Append(@, <<"raise", p>>)]
               ELSE crun
    /\ UNCHANGED <<artifacts, fs_files, processed_stack, runlog>>

\* mutant: the returned mapping is not saved before the next iteration
StepDoneUnsaved(p, s, params, arts) ==
    /\ processed_stack' = [processed_stack EXCEPT ![p] = Append(@, s)]
    /\ runlog' = Append(runlog, [step |-> s, params |-> params, arts |-> arts])
    /\ cur' = [cur EXCEPT !.k = @ + 1]
    /\ UNCHANGED <<artifacts, fs_files, out, crun>>

\* the step returned arts: save them, push the step, go on
StepDone(p, s, params, arts) ==
    /\ artifacts' = [artifacts EXCEPT ![p] = saved_index(p, arts)]
    /\ fs_files' = saved_files(p, arts)
    /\ processed_stack' = [processed_stack EXCEPT ![p] = Append(@, s)]
    /\ runlog' = Append(runlog, [step |-> s, params |-> params, arts |-> arts])
    /\ cur' = [cur EXCEPT !.k = @ + 1]
    /\ UNCHANGED <<out, crun>>

RunStep ==
    /\ cur # Idle
    /\ cur.k <= Len(steps[cur.p])
    /\ LET p == cur.p
           s == steps[p][cur.k]
           b == fill_params_from_step(p, s)
       IN  IF b.kind = "raise"
           THEN RunFails(p, b.exc, b.name)
           ELSE LET e == execute(s, b.params)
                IN  IF e.kind = "raise"
                    THEN RunFails(p, e.exc, "")
                    ELSE IF save_fails(p, e.arts)
                         THEN RunFails(p, "FileNotFoundError", "")
                         ELSE StepDone(p, s, b.params, e.arts)
    /\ UNCHANGED <<constructed, fs_dirs, finished, parents, stack0, nops, comp_pipelines, cacheVars, store_log, inverse_log, writing>>

RunEnd ==
    /\ cur # Idle
    /\ cur.k > Len(steps[cur.p])
    /\ finished' = [finished EXCEPT ![cur.p] = TRUE]
    /\ out' = RunOut(cur.p, "ok", "", "", 0)
    /\ cur' = Idle
    /\ crun' = IF crun.active
               THEN [crun EXCEPT !.i = @ + 1, !.log = Append(@, <<"end", cur.p>>)]
               ELSE crun
    /\ UNCHANGED <<constructed, artifacts, fs_dirs, fs_files, parents, processed_stack,
                   runlog, stack0, nops, comp_pipelines, cacheVars, store_log, inverse_log, writing>>

(***************************************************************************)
(* The pipeline engine: any sequence of API calls on the three pipelines.  *)
(***************************************************************************)
Next ==
    \/ \E p \in Pipelines : \E q \in Pipelines \ {p} : AddParent(p, q)
    \/ \E p \in Pipelines, n \in ArgNames : SaveArtifact(p, n)
    \/ \E p \in Pipelines, n \in ArgNames, d \in Defaults, r \in BOOLEAN :
          GetArtifact(p, n, d, r)
    \/ \E p \in Pipelines : Clear(p)
    \/ \E p \in Pipelines : RunSkip(p)
    \/ \E p \in Pipelines : RunBegin(p)
    \/ RunStep
    \/ RunEnd

Spec == Init /\ [][Next]_vars

(***************************************************************************)
(* Lookups on their own: every store content and every parent list that    *)
(* save_artifact and add_parent calls can build, then one get_artifact.    *)
(***************************************************************************)
\* the duplicate-free lists of pipelines other than p (what add_parent builds)
ParentLists(p) ==
    LET others == Pipelines \ {p}
    IN  {<< >>} \cup {<<q>> : q \in others}
                \cup {pr \in others \X others : pr[1] # pr[2]}

\* the pipeline whose save of n into directory d came last
LastSaver(saved, names, d, n) ==
    CHOOSE p \in Pipelines :
        /\ names[p] = d /\ n \in saved[p]
        /\ \A q \in Pipelines : (names[q] = d /\ n \in saved[q]) => SaveVal(q) <= SaveVal(p)

InitLookup ==
    /\ \E c \in Constructions, saved \in [Pipelines -> SUBSET ArgNames] :
        /\ backend = c.backend
        /\ pname = c.pname
        /\ fs_dirs = {c.pname[p] : p \in {q \in Pipelines : c.backend[q] = "disk"}}
        /\ artifacts = [p \in Pipelines |->
                          [n \in saved[p] |->
                              IF c.backend[p] = "mem" THEN SaveVal(p) ELSE <<c.pname[p], n>>]]
        /\ fs_files = [path \in UNION {{<<c.pname[p], n>> : n \in saved[p]} :
                                           p \in {q \in Pipelines : c.backend[q] = "disk"}}
                          |-> SaveVal(LastSaver(saved, c.pname, path[1], path[2]))]
    /\ parents \in [Pipelines -> UNION {ParentLists(p) : p \in Pipelines}]
    /\ \A p \in Pipelines : parents[p] \in ParentLists(p)
    /\ steps = StepPlan
    /\ finished = [p \in Pipelines |-> FALSE]
    /\ processed_stack = [p \in Pipelines |-> << >>]
    /\ cur = Idle
    /\ runlog = << >>
    /\ stack0 = << >>
    /\ out = NoOut
    /\ nops = MaxOps - 1
    /\ comp_pipelines = << >>
    /\ crun = NoCrun
    /\ CacheConstructed
    /\ store_log = << >>
    /\ inverse_log = NoReverse
    /\ writing = NoWriting

NextLookup == \E p \in Pipelines, n \in ArgNames, d \in Defaults, r \in BOOLEAN :
          GetArtifact(p, n, d, r)

SpecLookup == InitLookup /\ [][NextLookup]_vars

(***************************************************************************)
(* What the claims speak of.                                               *)
(***************************************************************************)
\* the store of p holds name n / the value it holds
OwnHas(p, n) == manager_get(p, n, NoneVal, TRUE).kind = "ok"
OwnVal(p, n) == manager_get(p, n, NoneVal, TRUE).val

ParentSet(p) == {parents[p][i] : i \in 1..Len(parents[p])}

RECURSIVE Closure(_, _)
Closure(S, n) ==
    IF n = 0 THEN S ELSE Closure(S \cup UNION {ParentSet(q) : q \in S}, n - 1)

\* every pipeline reachable from p through parent links
Ancestors(p) == Closure(ParentSet(p), Cardinality(Pipelines))

\* no pipeline of p's ancestor chain is its own ancestor
Acyclic(p) == \A a \in {p} \cup Ancestors(p) : a \notin Ancestors(a)

\* p, then each parent's chain in registration order (depth-first), to depth d
RECURSIVE Chain(_, _)
RECURSIVE ChainOf(_, _, _)
Chain(p, d) == IF d = 0 THEN << >> ELSE <<p>> \o ChainOf(parents[p], 1, d - 1)
ChainOf(lst, i, d) ==
    IF i > Len(lst) THEN << >> ELSE Chain(lst[i], d) \o ChainOf(lst, i + 1, d)

\* the first pipeline of the chain whose store holds n decides the lookup
FirstHit(p, n) ==
    LET ch == Chain(p, Cardinality(Pipelines))
        hits == {i \in 1..Len(ch) : OwnHas(ch[i], n)}
    IN  IF hits = {}
        THEN Raise("ArtifactNotFoundError", n)
        ELSE Ok(OwnVal(ch[CHOOSE i \in hits : \A j \in hits : i <= j], n))

(***************************************************************************)
(* Claims about Pipeline.run and Pipeline.get_artifact.                    *)
(***************************************************************************)
\* the steps iterations 1..k-1 of a run over p execute
Prefix(p, k) == SubSeq(steps[p], 1, k - 1)

LogSteps == [i \in 1..Len(runlog) |-> runlog[i].step]

\* the iterations before i of the run in progress that returned artifact n
Producers(i, n) == {j \in 1..(i - 1) : n \in DOMAIN runlog[j].arts}

\* iteration i was bound to what the latest earlier iteration returned for each
\* of its parameters that an earlier iteration returned
BoundToEarlier(i) ==
    \A n \in DOMAIN runlog[i].params :
        Producers(i, n) # {} =>
            LET j == CHOOSE a \in Producers(i, n) : \A b \in Producers(i, n) : b <= a
            IN  runlog[i].params[n] = runlog[j].arts[n]

RunCompleted == out.op = "run" /\ out.kind = "ok" /\ cur = Idle

\* C1: a run() that passed the finished check executes the steps in list
\* order, each once (after k-1 iterations the log is steps[1..k-1]); every
\* iteration is bound to the artifacts the earlier iterations of the same run
\* returned (each mapping is in the store before the next binding); and when
\* the loop is over finished is true, every step has run once and the store
\* holds what the steps returned.
C1_RunInOrder ==
    /\ cur # Idle =>
        /\ LogSteps = Prefix(cur.p, cur.k)
        /\ \A i \in 1..Len(runlog) : BoundToEarlier(i)
    /\ RunCompleted =>
        /\ finished[out.p]
        /\ LogSteps = steps[out.p]
        /\ \A i \in 1..Len(runlog) : BoundToEarlier(i)
        /\ \A n \in Names :
              Producers(Len(runlog) + 1, n) # {} =>
                  LET j == CHOOSE a \in Producers(Len(runlog) + 1, n) :
                                \A b \in Producers(Len(runlog) + 1, n) : b <= a
                  IN  OwnHas(out.p, n) /\ OwnVal(out.p, n) = runlog[j].arts[n]

\* C1 witness: P1 (mk, inc, opt) completed a run while a parent's store held
\* another x; inc was bound to mk's x = 1 and opt to inc's y = 2.
C1_Witness ==
    /\ RunCompleted /\ out.p = "P1" /\ Len(runlog) = 3
    /\ Len(parents["P1"]) > 0 /\ OwnHas(parents["P1"][1], "x")
    /\ OwnVal(parents["P1"][1], "x") # 1
    /\ runlog[2].params["x"] = 1 /\ runlog[3].params["y"] = 2
    /\ OwnVal("P1", "z") = 2

\* C2: a run() call on a finished pipeline executes no step and leaves the
\* store, the history stack and the finished flag as they were.
C2_FinishedRunIsNoOp ==
    [][\A p \in Pipelines :
          (finished[p] /\ nops' = nops + 1 /\ out'.op = "run" /\ out'.p = p) =>
              /\ out'.kind = "skipped"
              /\ cur' = Idle
              /\ UNCHANGED <<artifacts, fs_dirs, fs_files, processed_stack, finished, runlog>>]_vars

\* C2 witness: run() was called on a finished pipeline that had executed steps.
C2_Witness ==
    /\ out.op = "run" /\ out.kind = "skipped"
    /\ finished[out.p] /\ Len(processed_stack[out.p]) > 0

\* C3: on an acyclic parent graph, get_artifact(name) with raise_not_found
\* returns the own value when the own store has the name; otherwise the value
\* of the first pipeline, in depth-first registration order of the parents,
\* whose store has it; and raises ArtifactNotFoundError exactly when no
\* pipeline of the ancestor chain has it.
C3_RequiredLookup ==
    (out.op = "get_artifact" /\ out.rnf /\ Acyclic(out.p)) =>
        LET p == out.p
            n == out.name
            hit == FirstHit(p, n)
        IN  /\ OwnHas(p, n) => (out.kind = "ok" /\ out.val = OwnVal(p, n))
            /\ out.kind = hit.kind /\ out.val = hit.val /\ out.exc = hit.exc
            /\ (out.kind = "raise") <=> (\A a \in {p} \cup Ancestors(p) : ~OwnHas(a, n))
            /\ out.kind = "raise" => (out.exc = "ArtifactNotFoundError" /\ out.name = n)

\* C3 witness: the name is in neither the own store nor the first parent's,
\* and the value returned is the one of the first parent's parent, although
\* the second parent has the name too.
C3_Witness ==
    /\ out.op = "get_artifact" /\ out.rnf /\ out.kind = "ok" /\ Acyclic(out.p)
    /\ Len(parents[out.p]) = 2
    /\ ~OwnHas(out.p, out.name)
    /\ ~OwnHas(parents[out.p][1], out.name)
    /\ OwnHas(parents[out.p][2], out.name)
    /\ parents[parents[out.p][1]] = <<parents[out.p][2]>>
    /\ out.val = OwnVal(parents[out.p][2], out.name)

\* C4: an optional parameter is bound to what the resolution chain holds for
\* its name (own store, then the parents depth-first), and to its declared
\* default only when no pipeline of the chain has the name.  Stated of the
\* iteration that has just run, for a parameter the step does not itself
\* return; the code binds the default whenever the own store lacks the name.
C4_OptionalThroughChain ==
    (cur # Idle /\ Len(runlog) > 0 /\ Acyclic(cur.p)) =>
        LET e == runlog[Len(runlog)]
            prms == get_execute_params(e.step)
        IN  \A i \in 1..Len(prms) :
                (prms[i].has_default /\ prms[i].name \notin DOMAIN e.arts) =>
                    LET hit == FirstHit(cur.p, prms[i].name)
                    IN  e.params[prms[i].name] =
                            IF hit.kind = "ok" THEN hit.val ELSE prms[i].default

RunFailed == out.op = "run" /\ out.kind = "raise"

\* the failures C5 names: the step body raised, or a required parameter was
\* not found
StepFailed == RunFailed /\ out.exc \in {"StepError", "ArtifactNotFoundError"}

\* C5: when iteration k of a run fails, run() is over with that exception, no
\* later step has executed, finished is false and the history stack holds
\* only steps that completed before k (every entry is one of steps[1..k-1]);
\* and a run always proceeds from the first step.  The stack is never emptied,
\* so entries of earlier runs stay on it.
C5_FailedRun ==
    /\ StepFailed =>
        /\ cur = Idle
        /\ ~finished[out.p]
        /\ LogSteps = Prefix(out.p, out.k)
        /\ \A i \in 1..Len(processed_stack[out.p]) :
              \E j \in 1..(out.k - 1) : processed_stack[out.p][i] = steps[out.p][j]
    /\ cur # Idle => LogSteps = Prefix(cur.p, cur.k)

\* What the code does keep of C5: the failed run is over, finished is false,
\* the steps before k ran, each once and in order, none after k, and the run
\* pushed exactly those on top of what the stack held when it began.
FailedRunEffect ==
    /\ RunFailed =>
        /\ cur = Idle
        /\ ~finished[out.p]
        /\ LogSteps = Prefix(out.p, out.k)
        /\ processed_stack[out.p] = stack0 \o Prefix(out.p, out.k)
    /\ cur # Idle =>
        /\ LogSteps = Prefix(cur.p, cur.k)
        /\ processed_stack[cur.p] = stack0 \o Prefix(cur.p, cur.k)

(***************************************************************************)
(* The cache wrappers: any sequence of wrapper calls and attribute changes *)
(* on the two wrapped steps.                                               *)
(***************************************************************************)
InitCache ==
    /\ CacheConstructed
    /\ store_log = << >>
    /\ inverse_log = NoReverse
    /\ writing = NoWriting
    /\ backend = [p \in Pipelines |-> "mem"]
    /\ pname = DefaultNames
    /\ fs_dirs = {}
    /\ steps = StepPlan
    /\ artifacts = [p \in Pipelines |-> << >>]
    /\ fs_files = << >>
    /\ finished = [p \in Pipelines |-> FALSE]
    /\ parents = [p \in Pipelines |-> << >>]
    /\ processed_stack = [p \in Pipelines |-> << >>]
    /\ cur = Idle
    /\ runlog = << >>
    /\ stack0 = << >>
    /\ out = NoOut
    /\ nops = 0
    /\ comp_pipelines = << >>
    /\ crun = NoCrun

NextCache ==
    \/ \E s \in WSteps, shape \in CallShapes : DiskExecute(s, shape)
    \/ \E s \in WSteps, shape \in CallShapes : MemoryExecute(s, shape)
    \/ \E s \in WSteps, v \in Values : SetValue(s, v)
    \/ \E s \in WSteps, nm \in StepNames : SetName(s, nm)

SpecCache == InitCache /\ [][NextCache]_vars

\* what a call was given, by parameter name: two calls have identical
\* arguments when these agree
CallArgs(i) == apply_defaults(bind(calls[i].shape))

SameCall(i, j) ==
    /\ calls[i].kind = calls[j].kind
    /\ calls[i].step = calls[j].step
    /\ CallArgs(i) = CallArgs(j)

\* C6: on either wrapper, of the calls made to one wrapped step with
\* identical arguments under an identical step configuration the first is a
\* miss and every later one a hit, so the body runs exactly once, and all of
\* them return the same result.
C6_MemoizedOnce ==
    \A i \in 1..Len(calls) : \A j \in 1..Len(calls) :
        (/\ i < j
         /\ SameCall(i, j)
         /\ calls[i].dict = calls[j].dict
         /\ \A k \in 1..(i - 1) : ~(SameCall(k, i) /\ calls[k].dict = calls[i].dict))
        => /\ ~calls[i].hit
           /\ calls[j].hit
           /\ calls[i].result = calls[j].result

\* C7: on either wrapper, two calls to one wrapped step with identical
\* arguments but different step configurations derive different keys, and
\* the later one never returns a result stored under another configuration:
\* when it is a hit, the entry was stored by a call under its own
\* configuration.
C7_ConfigInKey ==
    \A i \in 1..Len(calls) : \A j \in 1..Len(calls) :
        (/\ i < j
         /\ SameCall(i, j)
         /\ calls[i].dict # calls[j].dict)
        => /\ calls[i].key # calls[j].key
           /\ calls[j].hit =>
                \E k \in 1..(j - 1) :
                    /\ calls[k].kind = calls[j].kind
                    /\ ~calls[k].hit
                    /\ calls[k].key = calls[j].key
                    /\ calls[k].dict = calls[j].dict

\* what the disk wrapper alone guarantees of C6 and C7
DiskOnly(P(_, _)) ==
    \A i \in 1..Len(calls) : \A j \in 1..Len(calls) :
        (i < j /\ calls[i].kind = "disk" /\ calls[j].kind = "disk" /\ SameCall(i, j))
        => P(i, j)

DiskMemoizedOnce ==
    DiskOnly(LAMBDA i, j :
        (/\ calls[i].dict = calls[j].dict
         /\ \A k \in 1..(i - 1) : ~(SameCall(k, i) /\ calls[k].dict = calls[i].dict))
        => (~calls[i].hit /\ calls[j].hit /\ calls[i].result = calls[j].result))

DiskConfigInKey ==
    DiskOnly(LAMBDA i, j :
        calls[i].dict # calls[j].dict => calls[i].key # calls[j].key)

(***************************************************************************)
(* PipelineComposition.  The adjacency is a Python dict {Pipeline: [child,  *)
(* ...]}: here the list of its items <<parent, children>> in insertion     *)
(* order.  Compositions are built over four pipelines, so that diamonds    *)
(* occur.                                                                  *)
(***************************************************************************)
CompNodes == Pipelines \cup {"P4"}
NodeOrder == <<"P1", "P2", "P3", "P4">>

Range(seq) == {seq[i] : i \in 1..Len(seq)}
Reverse(seq) == [i \in 1..Len(seq) |-> seq[Len(seq) + 1 - i]]

\* the lists over S without repetition
RECURSIVE ListsOver(_)
ListsOver(S) == {<< >>} \cup UNION {{<<x>> \o l : l \in ListsOver(S \ {x})} : x \in S}

\* self.pipelines.keys()
Keys(adj) == {adj[i][1] : i \in 1..Len(adj)}

\* self.pipelines.get(pipeline, [])
pipelines_get(adj, pipeline) ==
    LET I == {i \in 1..Len(adj) : adj[i][1] = pipeline}
    IN  IF I = {} THEN << >> ELSE adj[CHOOSE i \in I : TRUE][2]

\* all_pipelines: the keys and every child
all_pipelines(adj) == Keys(adj) \cup UNION {Range(adj[i][2]) : i \in 1..Len(adj)}

\* for pipeline in self.pipelines: pipeline._parents = []
reset_parents(adj, par) ==
    [q \in DOMAIN par |-> IF q \in Keys(adj) THEN << >> ELSE par[q]]

\* for parent, children in self.pipelines.items():
\*     for child in children: child.add_parent(parent)
RECURSIVE register_children(_, _, _, _)
register_children(adj, i, j, par) ==
    IF i > Len(adj) THEN par
    ELSE IF j > Len(adj[i][2]) THEN register_children(adj, i + 1, 1, par)
    ELSE register_children(adj, i, j + 1,
                           [par EXCEPT ![adj[i][2][j]] = add_parent(@, adj[i][1])])

set_parents(adj, par) == register_children(adj, 1, 1, reset_parents(adj, par))

\* PipelineComposition(adj), for any adjacency of adjs
CompositionInit(c, adjs) ==
    /\ CanCall
    /\ c \notin DOMAIN comp_pipelines
    /\ \E adj \in adjs :
        /\ comp_pipelines' = (c :> adj) @@ comp_pipelines
        /\ parents' = set_parents(adj, parents)
    /\ out' = [NoOut EXCEPT !.op = "composition", !.p = c]
    /\ nops' = nops + 1
    /\ UNCHANGED <<constructed, artifacts, fs_dirs, fs_files, finished, processed_stack,
                   cur, runlog, stack0, crun, cacheVars, store_log, inverse_log, writing>>

\* visit(pipeline) of _topological_sort and its loop over the children;
\* st holds the closure's visited and order
RECURSIVE visit(_, _, _), visit_each(_, _, _, _)
visit(adj, pipeline, st) ==
    IF pipeline \in st.visited
    THEN st
    ELSE LET st1 == visit_each(adj, pipelines_get(adj, pipeline), 1,
                               [st EXCEPT !.visited = @ \cup {pipeline}])
         IN  [st1 EXCEPT !.order = Append(@, pipeline)]

visit_each(adj, list, i, st) ==
    IF i > Len(list) THEN st ELSE visit_each(adj, list, i + 1, visit(adj, list[i], st))

\* roots: the pipelines of all_pipelines whose parents list is empty; they
\* come out of a Python set, in any order
roots(adj) == {q \in all_pipelines(adj) : parents[q] = << >>}
RootLists(adj) == {l \in ListsOver(roots(adj)) : Len(l) = Cardinality(roots(adj))}

\* mutant: the accumulated list returned without being reversed
topological_sort_unreversed(adj, root_list) ==
    visit_each(adj, root_list, 1, [visited |-> {}, order |-> << >>]).order

\* _topological_sort, the roots taken in the order root_list
topological_sort(adj, root_list) ==
    Reverse(visit_each(adj, root_list, 1, [visited |-> {}, order |-> << >>]).order)

\* PipelineComposition.run(): the order is computed, then the loop begins
CompositionRun(c) ==
    /\ CanCall
    /\ c \in DOMAIN comp_pipelines
    /\ \E root_list \in RootLists(comp_pipelines[c]) :
          crun' = [c |-> c, order |-> topological_sort(comp_pipelines[c], root_list),
                   i |-> 1, log |-> << >>, active |-> TRUE]
    /\ out' = [NoOut EXCEPT !.op = "comp_run", !.p = c, !.kind = "running"]
    /\ nops' = nops + 1
    /\ UNCHANGED <<constructed, artifacts, fs_dirs, fs_files, finished, parents,
                   processed_stack, cur, runlog, stack0, comp_pipelines, cacheVars, store_log, inverse_log, writing>>

\* mutant: the loop walks the order from its end
next_pipeline_backwards(order, i) == order[Len(order) + 1 - i]

\* for pipeline in order: the pipeline of iteration i
next_pipeline(order, i) == order[i]

\* pipeline.run() inside the loop, on a finished pipeline: it returns at once
CompositionRunSkip ==
    /\ crun.active
    /\ cur = Idle
    /\ crun.i <= Len(crun.order)
    /\ LET q == next_pipeline(crun.order, crun.i)
       IN  /\ skips_run(q)
           /\ crun' = [crun EXCEPT !.i = @ + 1,
                                   !.log = @ \o << <<"start", q>>, <<"end", q>> >>]
           /\ out' = RunOut(q, "skipped", "", "", 0)
    /\ UNCHANGED <<constructed, artifacts, fs_dirs, fs_files, finished, parents,
                   processed_stack, cur, runlog, stack0, nops, comp_pipelines, cacheVars, store_log, inverse_log, writing>>

\* pipeline.run() inside the loop, on a pipeline that is not finished
CompositionRunBegin ==
    /\ crun.active
    /\ cur = Idle
    /\ crun.i <= Len(crun.order)
    /\ LET q == next_pipeline(crun.order, crun.i)
       IN  /\ ~skips_run(q)
           /\ cur' = [p |-> q, k |-> 1]
           /\ runlog' = << >>
           /\ stack0' = processed_stack[q]
           /\ crun' = [crun EXCEPT !.log = Append(@, <<"start", q>>)]
           /\ out' = RunOut(q, "running", "", "", 0)
    /\ UNCHANGED <<constructed, artifacts, fs_dirs, fs_files, finished, parents,
                   processed_stack, nops, comp_pipelines, cacheVars, store_log, inverse_log, writing>>

\* the loop of PipelineComposition.run() is over
CompositionRunEnd ==
    /\ crun.active
    /\ cur = Idle
    /\ crun.i > Len(crun.order)
    /\ crun' = [crun EXCEPT !.active = FALSE]
    /\ out' = [NoOut EXCEPT !.op = "comp_run", !.p = crun.c, !.kind = "ok"]
    /\ UNCHANGED <<constructed, artifacts, fs_dirs, fs_files, finished, parents,
                   processed_stack, cur, runlog, stack0, nops, comp_pipelines, cacheVars, store_log, inverse_log, writing>>

(***************************************************************************)
(* One composition: four pipelines of one step each, whatever parent list  *)
(* an earlier add_parent call left, a composition built over any acyclic   *)
(* adjacency, and its runs.                                                *)
(***************************************************************************)
\* the pipelines reachable from p through child links
RECURSIVE DescClosure(_, _, _)
DescClosure(adj, S, n) ==
    IF n = 0 THEN S
    ELSE DescClosure(adj, S \cup UNION {Range(pipelines_get(adj, q)) : q \in S}, n - 1)

Descendants(adj, p) ==
    DescClosure(adj, Range(pipelines_get(adj, p)), Cardinality(CompNodes))

AcyclicAdjacency(adj) == \A p \in all_pipelines(adj) : p \notin Descendants(adj, p)

\* the acyclic dicts whose keys are taken from the list keys, in that order,
\* each with a list of distinct children other than the key
RECURSIVE DictsOver(_)
DictsOver(keys) ==
    IF keys = << >> THEN {<< >>}
    ELSE LET rest == DictsOver(Tail(keys))
             more == { << <<Head(keys), cd[1]>> >> \o cd[2] :
                          cd \in ListsOver(CompNodes \ {Head(keys)}) \X rest }
         IN  rest \cup {adj \in more : AcyclicAdjacency(adj)}

Adjacencies == DictsOver(NodeOrder) \ {<< >>}

\* the parent lists before the composition is built: no add_parent call
\* yet, or one call q.add_parent(r)
PriorParents ==
    { [p \in CompNodes |-> << >>] } \cup
    { [p \in CompNodes |-> IF p = qr[1] THEN <<qr[2]>> ELSE << >>] :
        qr \in {x \in CompNodes \X CompNodes : x[1] # x[2]} }

StepPlanComp ==
    [p \in CompNodes |->
        CASE p = "P1" -> <<"mk">>
          [] p = "P2" -> <<"inc">>
          [] p = "P3" -> <<"opt">>
          [] OTHER -> <<"inc">>]

InitComp ==
    /\ backend = [p \in CompNodes |-> "mem"]
    /\ pname = [p \in CompNodes |-> "default_pipeline"]
    /\ fs_dirs = {}
    /\ fs_files = << >>
    /\ steps = StepPlanComp
    /\ artifacts = [p \in CompNodes |-> << >>]
    /\ finished = [p \in CompNodes |-> FALSE]
    /\ parents \in PriorParents
    /\ processed_stack = [p \in CompNodes |-> << >>]
    /\ cur = Idle
    /\ runlog = << >>
    /\ stack0 = << >>
    /\ out = NoOut
    /\ nops = 0
    /\ comp_pipelines = << >>
    /\ crun = NoCrun
    /\ CacheConstructed
    /\ store_log = << >>
    /\ inverse_log = NoReverse
    /\ writing = NoWriting

NextComp ==
    \/ CompositionInit("K1", Adjacencies)
    \/ CompositionRun("K1")
    \/ CompositionRunSkip
    \/ CompositionRunBegin
    \/ RunStep
    \/ RunEnd
    \/ CompositionRunEnd

SpecComp == InitComp /\ [][NextComp]_vars

\* the position of pipeline q in a list that holds it
IndexOf(seq, q) == CHOOSE i \in 1..Len(seq) : seq[i] = q

\* the pipelines from which q is reachable through child links
AncestorsIn(adj, q) == {a \in all_pipelines(adj) : q \in Descendants(adj, a)}

\* C8: for an acyclic adjacency the order a composition computes holds every
\* referenced pipeline exactly once and every pipeline before all of its
\* transitive children.  (Stated of the order when it has just been
\* computed: a run does not change it.)
C8_TopologicalOrder ==
    (crun.c # "-" /\ crun.log = << >> /\ AcyclicAdjacency(comp_pipelines[crun.c])) =>
        LET adj == comp_pipelines[crun.c]
            order == crun.order
        IN  /\ Range(order) = all_pipelines(adj)
            /\ Len(order) = Cardinality(all_pipelines(adj))
            /\ \A a \in all_pipelines(adj) : \A d \in Descendants(adj, a) :
                  IndexOf(order, a) < IndexOf(order, d)

\* an order was computed for a diamond: two children of one pipeline share a
\* child
C8_Witness ==
    /\ crun.c # "-"
    /\ LET adj == comp_pipelines[crun.c]
       IN  /\ Len(crun.order) = 4
           /\ \E a \in CompNodes : \E b \in CompNodes : \E c \in CompNodes : \E d \in CompNodes :
                /\ Cardinality({a, b, c, d}) = 4
                /\ {b, c} \subseteq Range(pipelines_get(adj, a))
                /\ d \in Range(pipelines_get(adj, b))
                /\ d \in Range(pipelines_get(adj, c))

\* the run() calls a composition run has made so far, in the order made
Started == SelectSeq(crun.log, LAMBDA e : e[1] = "start")

\* C9: a composition run calls run() on the pipelines one after another in
\* the computed order, so a pipeline's run() starts only after the run() of
\* each of its ancestors has completed; a composition run that completes has
\* run every pipeline of the adjacency exactly once.  (The ancestors are
\* stated of the last two entries of the log, where a run() that has just
\* started is: the log only grows.)
C9_RunsInOrder ==
    crun.c # "-" =>
        LET adj == comp_pipelines[crun.c]
            log == crun.log
        IN  /\ [i \in 1..Len(Started) |-> Started[i][2]] = SubSeq(crun.order, 1, Len(Started))
            /\ \A k \in 1..Len(log) :
                  IF k % 2 = 1
                  THEN log[k][1] = "start"
                  ELSE log[k][1] \in {"end", "raise"} /\ log[k][2] = log[k - 1][2]
            /\ \A k \in {Len(log) - 1, Len(log)} \cap (1..Len(log)) :
                  log[k][1] = "start" =>
                      \A a \in AncestorsIn(adj, log[k][2]) :
                          \E m \in 1..(k - 1) : log[m] = <<"end", a>>
            /\ (out.op = "comp_run" /\ out.kind = "ok") =>
                  /\ Len(Started) = Cardinality(all_pipelines(adj))
                  /\ {Started[i][2] : i \in 1..Len(Started)} = all_pipelines(adj)

\* the composition {P1: [P2, P3], P2: [P3], P3: []} has run to the end: P1,
\* then P2, then P3, each executing its step
C9_Witness ==
    /\ out.op = "comp_run" /\ out.kind = "ok"
    /\ comp_pipelines[crun.c] =
          << <<"P1", <<"P2", "P3">> >>, <<"P2", <<"P3">> >>, <<"P3", << >> >> >>
    /\ crun.log = << <<"start", "P1">>, <<"end", "P1">>, <<"start", "P2">>, <<"end", "P2">>,
                     <<"start", "P3">>, <<"end", "P3">> >>
    /\ processed_stack["P1"] = <<"mk">>
    /\ processed_stack["P2"] = <<"inc">>
    /\ processed_stack["P3"] = <<"opt">>

\* the pipelines that list q as a child in the adjacency
ListedParents(adj, q) == {k \in Keys(adj) : q \in Range(pipelines_get(adj, k))}

\* C10: once a composition is built, the parent list of every pipeline its
\* adjacency references, as a key or as a child, holds exactly the pipelines
\* that list it as a child, each once.
C10_ParentsRebuilt ==
    \A c \in DOMAIN comp_pipelines :
        \A q \in all_pipelines(comp_pipelines[c]) :
            /\ Range(parents[q]) = ListedParents(comp_pipelines[c], q)
            /\ Len(parents[q]) = Cardinality(Range(parents[q]))

\* what construction does establish: the keys are rebuilt exactly; a pipeline
\* that is only a child keeps the parents it had and gains the listed ones
ParentsOfKeysRebuilt ==
    \A c \in DOMAIN comp_pipelines :
        \A q \in all_pipelines(comp_pipelines[c]) :
            /\ ListedParents(comp_pipelines[c], q) \subseteq Range(parents[q])
            /\ Len(parents[q]) = Cardinality(Range(parents[q]))
            /\ q \in Keys(comp_pipelines[c]) =>
                  Range(parents[q]) = ListedParents(comp_pipelines[c], q)

(***************************************************************************)
(* One artifact manager on its own: the store of pipeline TheStore, built  *)
(* in memory or on disk, and any sequence of save_artifact, get_artifact   *)
(* and del_artifact calls on it.  store_log records each call and what it  *)
(* returned.                                                               *)
(***************************************************************************)
TheStore == "P1"
StoreValues == {1, 2}

StoreCall(op, n, arg, rnf, ret) ==
    [op |-> op, name |-> n, arg |-> arg, rnf |-> rnf, ret |-> ret]

StoreFrame ==
    UNCHANGED <<constructed, finished, parents, processed_stack, cur, runlog, stack0, out,
                compVars, cacheVars, inverse_log, writing>>

\* artifact_manager.save_artifact(n, v)
StoreSave(p, n, v) ==
    /\ nops < MaxOps
    /\ nops' = nops + 1
    /\ IF save_fails(p, (n :> v))
       THEN /\ store_log' = Append(store_log,
                                   StoreCall("save", n, v, FALSE, Raise("FileNotFoundError", n)))
            /\ UNCHANGED <<artifacts, fs_files>>
       ELSE /\ artifacts' = [artifacts EXCEPT ![p] = saved_index(p, (n :> v))]
            /\ fs_files' = saved_files(p, (n :> v))
            /\ store_log' = Append(store_log, StoreCall("save", n, v, FALSE, Ok(NoneVal)))
    /\ UNCHANGED fs_dirs
    /\ StoreFrame

\* artifact_manager.get_artifact(n, default, raise_not_found)
StoreGet(p, n, default, raise_not_found) ==
    /\ nops < MaxOps
    /\ nops' = nops + 1
    /\ store_log' = Append(store_log,
                           StoreCall("get", n, default, raise_not_found,
                                     manager_get(p, n, default, raise_not_found)))
    /\ UNCHANGED <<artifacts, fs_dirs, fs_files>>
    /\ StoreFrame

\* mutant: del_artifact that deletes nothing
index_after_kept(p, n) == artifacts[p]

\* ArtifactInMemory.del_artifact removes the name from the dict;
\* ArtifactInDisk.del_artifact leaves its index as it is
index_after_del(p, n) ==
    IF backend[p] = "mem"
    THEN [m \in DOMAIN artifacts[p] \ {n} |-> artifacts[p][m]]
    ELSE artifacts[p]

\* mutant: the file is left in place
files_after_kept(p, n) == fs_files

\* ArtifactInDisk.del_artifact removes the file of the name when it exists
files_after_del(p, n) ==
    IF backend[p] = "mem"
    THEN fs_files
    ELSE [path \in DOMAIN fs_files \ {artifact_path(p, n)} |-> fs_files[path]]

\* artifact_manager.del_artifact(n)
StoreDel(p, n) ==
    /\ nops < MaxOps
    /\ nops' = nops + 1
    /\ artifacts' = [artifacts EXCEPT ![p] = index_after_del(p, n)]
    /\ fs_files' = files_after_del(p, n)
    /\ store_log' = Append(store_log, StoreCall("del", n, NoneVal, FALSE, Ok(NoneVal)))
    /\ UNCHANGED fs_dirs
    /\ StoreFrame

InitStore == InitPipelines

NextStore ==
    \/ \E n \in ArgNames, v \in StoreValues : StoreSave(TheStore, n, v)
    \/ \E n \in ArgNames, d \in Defaults, r \in BOOLEAN : StoreGet(TheStore, n, d, r)
    \/ \E n \in ArgNames : StoreDel(TheStore, n)

SpecStore == InitStore /\ [][NextStore]_vars

(***************************************************************************)
(* Claims about the stores.                                                *)
(***************************************************************************)
\* what an own-store lookup of n in the store of q gives
StoreEntry(q, n) == manager_get(q, n, NoneVal, TRUE)

\* C11: an iteration of run() saves every key of the mapping the step
\* returned, with its value, into the store of the running pipeline, and no
\* step of a run adds, overwrites or removes an entry of the store of a
\* parent or ancestor of the running pipeline.
C11_OwnStoreOnly ==
    [][cur # Idle =>
        /\ \A q \in Ancestors(cur.p) \ {cur.p} : \A n \in Names :
              StoreEntry(q, n)' = StoreEntry(q, n)
        /\ Len(runlog') > Len(runlog) =>
              \A n \in DOMAIN runlog'[Len(runlog')].arts :
                  StoreEntry(cur.p, n)' = Ok(runlog'[Len(runlog')].arts[n])]_vars

\* C12: clear() returns without raising and leaves the pipeline not started:
\* every own-store lookup misses and finished is false; and the pipeline
\* stays usable: no later save_artifact fails, and no later run() fails to
\* persist what a step returned.
C12_ClearResets ==
    /\ out.op = "clear" =>
        /\ out.kind = "ok"
        /\ ~finished[out.p]
        /\ \A n \in Names : StoreEntry(out.p, n).kind = "raise"
    /\ out.op = "save_artifact" => out.kind = "ok"
    /\ (out.op = "run" /\ out.kind = "raise") => out.exc # "FileNotFoundError"

\* what clear() does give on the in-memory store
ClearResetsInMemory ==
    /\ (out.op = "clear" /\ backend[out.p] = "mem") =>
        /\ out.kind = "ok"
        /\ ~finished[out.p]
        /\ \A n \in Names : StoreEntry(out.p, n).kind = "raise"
    /\ (out.op = "save_artifact" /\ backend[out.p] = "mem") => out.kind = "ok"

\* the calls between positions i and j of the log that save or delete n
Rewrites(i, j, n) ==
    {k \in (i + 1)..(j - 1) : store_log[k].op \in {"save", "del"} /\ store_log[k].name = n}

\* C13: in one store every save succeeds, and a get of a name returns the
\* value of the most recent save of that name (an earlier value is
\* overwritten), whatever was saved under other names in between.
C13_SaveThenGet ==
    \A j \in 1..Len(store_log) :
        /\ store_log[j].op = "save" => store_log[j].ret = Ok(NoneVal)
        /\ store_log[j].op = "get" =>
              \A i \in 1..(j - 1) :
                  (/\ store_log[i].op = "save"
                   /\ store_log[i].name = store_log[j].name
                   /\ Rewrites(i, j, store_log[j].name) = {})
                  => store_log[j].ret = Ok(store_log[i].arg)

\* x was saved as 1, then as 2, and the get that followed returned 2
C13_Witness ==
    /\ Len(store_log) = 3
    /\ store_log[1].op = "save" /\ store_log[1].name = "x" /\ store_log[1].arg = 1
    /\ store_log[2].op = "save" /\ store_log[2].name = "x" /\ store_log[2].arg = 2
    /\ store_log[3].op = "get" /\ store_log[3].name = "x" /\ store_log[3].ret = Ok(2)
    /\ backend[TheStore] = "disk"

\* the calls between positions i and j of the log that save n
SavesBetween(i, j, n) ==
    {k \in (i + 1)..(j - 1) : store_log[k].op = "save" /\ store_log[k].name = n}

\* C14: a delete never raises, whether the name is present or absent; after
\* a delete of a name (and no later save of it) a get of that name returns
\* the caller's default when raise_not_found is false and raises
\* ArtifactNotFoundError carrying the name when it is true; and a delete of
\* one name leaves the other names as they were: a get of a name still
\* returns its last saved value after deletes of other names.
C14_DeleteThenGet ==
    \A j \in 1..Len(store_log) :
        /\ store_log[j].op = "del" => store_log[j].ret = Ok(NoneVal)
        /\ store_log[j].op = "get" =>
              \A i \in 1..(j - 1) :
                  /\ (/\ store_log[i].op = "del"
                      /\ store_log[i].name = store_log[j].name
                      /\ SavesBetween(i, j, store_log[j].name) = {})
                     => store_log[j].ret =
                            IF store_log[j].rnf
                            THEN Raise("ArtifactNotFoundError", store_log[j].name)
                            ELSE Ok(store_log[j].arg)
                  /\ (/\ store_log[i].op = "save"
                      /\ store_log[i].name = store_log[j].name
                      /\ Rewrites(i, j, store_log[j].name) = {}
                      /\ \E k \in (i + 1)..(j - 1) : store_log[k].op = "del")
                     => store_log[j].ret = Ok(store_log[i].arg)

\* x was saved, the absent y was deleted, x was deleted, and the get of x
\* that followed returned the caller's default
C14_Witness ==
    /\ Len(store_log) = 4
    /\ store_log[1].op = "save" /\ store_log[1].name = "x"
    /\ store_log[2].op = "del" /\ store_log[2].name = "y"
    /\ store_log[3].op = "del" /\ store_log[3].name = "x"
    /\ store_log[4].op = "get" /\ store_log[4].name = "x" /\ ~store_log[4].rnf
    /\ store_log[4].ret = Ok(store_log[4].arg)

\* C15: a lookup on a pipeline returns only artifacts of that pipeline or of
\* its ancestors: when get_artifact returns a stored value, the name was
\* saved through the pipeline itself or through one of its ancestors,
\* whatever the names and the storage backend of the pipelines.
C15_NoForeignArtifacts ==
    (out.op = "get_artifact" /\ out.kind = "ok" /\ out.val \notin Defaults) =>
        \E q \in {out.p} \cup Ancestors(out.p) : out.name \in DOMAIN artifacts[q]

\* what holds of C15: pipelines whose stores are in memory never observe an
\* unrelated pipeline
NoForeignArtifactsInMemory ==
    (out.op = "get_artifact" /\ out.kind = "ok" /\ out.val \notin Defaults
        /\ backend[out.p] = "mem") =>
        \E q \in {out.p} \cup Ancestors(out.p) : out.name \in DOMAIN artifacts[q]

(***************************************************************************)
(* Pipeline.reverse_steps and PipelineStep.execute_inverse.  The steps mk  *)
(* and boom keep the inverse of PipelineStep; inc and opt override it with *)
(* transforms that do not commute (v - 1 and v * 2 on every value).        *)
(***************************************************************************)
\* the keyword arguments a caller of reverse_steps passes
Seeds == { << >>, ("t" :> 3) }

overrides_inverse(s) == s \in {"inc", "opt"}

\* step.execute_inverse(pipeline, **kwargs)
execute_inverse(s, kwargs) ==
    CASE s = "inc" -> [k \in DOMAIN kwargs |-> kwargs[k] - 1]
      [] s = "opt" -> [k \in DOMAIN kwargs |-> kwargs[k] * 2]
      [] OTHER -> << >>

\* mutant: the history stack walked in execution order
unreversed_stack(p) == processed_stack[p]

\* reversed(self._processed_stack)
reversed_stack(p) == Reverse(processed_stack[p])

\* the loop of reverse_steps over stk from kwargs: the execute_inverse calls made
RECURSIVE inverse_calls(_, _)
inverse_calls(stk, kwargs) ==
    IF stk = << >> THEN << >>
    ELSE LET r == execute_inverse(Head(stk), kwargs)
         IN  <<[step |-> Head(stk), kwargs |-> kwargs, ret |-> r]>>
                 \o inverse_calls(Tail(stk), r)

\* Pipeline.reverse_steps(**seed): the calls it makes and what it returns
reverse_steps(p, seed) ==
    LET cs == inverse_calls(reversed_stack(p), seed)
    IN  [p |-> p, stack |-> processed_stack[p], seed |-> seed, calls |-> cs,
         ret |-> IF cs = << >> THEN seed ELSE cs[Len(cs)].ret]

ReverseSteps(p, seed) ==
    /\ CanCall
    /\ inverse_log' = reverse_steps(p, seed)
    /\ out' = Returned("reverse_steps", p, Ok(NoneVal))
    /\ nops' = nops + 1
    /\ UNCHANGED <<constructed, artifacts, fs_dirs, fs_files, finished, parents,
                   processed_stack, cur, runlog, stack0, compVars, cacheVars, store_log, writing>>

\* the steps of the pipelines whose history is reversed: P3 stops at boom
\* with only mk, a step with the inherited inverse, in its history
StepPlanReverse ==
    [p \in Pipelines |->
        CASE p = "P1" -> <<"mk", "inc", "opt">>
          [] p = "P2" -> <<"opt", "inc">>
          [] OTHER -> <<"mk", "boom">>]

InitReverse ==
    /\ \E c \in Constructions :
        /\ backend = c.backend
        /\ pname = c.pname
        /\ fs_dirs = {c.pname[p] : p \in {q \in Pipelines : c.backend[q] = "disk"}}
    /\ steps = StepPlanReverse
    /\ artifacts = [p \in Pipelines |-> << >>]
    /\ fs_files = << >>
    /\ finished = [p \in Pipelines |-> FALSE]
    /\ parents = [p \in Pipelines |-> << >>]
    /\ processed_stack = [p \in Pipelines |-> << >>]
    /\ cur = Idle
    /\ runlog = << >>
    /\ stack0 = << >>
    /\ out = NoOut
    /\ nops = 0
    /\ comp_pipelines = << >>
    /\ crun = NoCrun
    /\ CacheConstructed
    /\ store_log = << >>
    /\ inverse_log = NoReverse
    /\ writing = NoWriting

\* runs and clears build the history stacks, reverse_steps walks them
NextReverse ==
    \/ \E p \in Pipelines : Clear(p)
    \/ \E p \in Pipelines : RunSkip(p)
    \/ \E p \in Pipelines : RunBegin(p)
    \/ RunStep
    \/ RunEnd
    \/ \E p \in Pipelines, seed \in Seeds : ReverseSteps(p, seed)

SpecReverse == InitReverse /\ [][NextReverse]_vars

(***************************************************************************)
(* Claims about the inverse transforms.                                    *)
(***************************************************************************)
\* C16: a step that does not override the inverse returns the keyword
\* arguments it was given unchanged, so reverse_steps(seed) on a pipeline
\* whose history holds only such steps returns seed.
C16_DefaultInverseIsIdentity ==
    /\ \A i \in 1..Len(inverse_log.calls) :
          ~overrides_inverse(inverse_log.calls[i].step)
              => inverse_log.calls[i].ret = inverse_log.calls[i].kwargs
    /\ (inverse_log.p \in Pipelines
          /\ \A i \in 1..Len(inverse_log.stack) :
                ~overrides_inverse(inverse_log.stack[i]))
          => inverse_log.ret = inverse_log.seed

\* C17: reverse_steps(seed) calls execute_inverse once per entry of the
\* history stack, last executed first; the first call receives seed, each
\* later call receives what the previous call returned, and the result of
\* the last call is returned (seed itself when the history is empty).
C17_ReverseFold ==
    inverse_log.p \in Pipelines =>
        LET stk == inverse_log.stack
            cs == inverse_log.calls
        IN  /\ Len(cs) = Len(stk)
            /\ \A i \in 1..Len(cs) :
                  /\ cs[i].step = stk[Len(stk) + 1 - i]
                  /\ cs[i].kwargs = IF i = 1 THEN inverse_log.seed ELSE cs[i - 1].ret
                  /\ cs[i].ret = execute_inverse(cs[i].step, cs[i].kwargs)
            /\ inverse_log.ret = IF cs = << >> THEN inverse_log.seed ELSE cs[Len(cs)].ret

\* witness: the history <<mk, inc, opt>> reversed from {t: 3}: opt first
\* ({t: 6}), then inc ({t: 5}), then mk, whose result is returned
C17_Witness ==
    /\ inverse_log.p = "P1"
    /\ inverse_log.stack = <<"mk", "inc", "opt">>
    /\ inverse_log.seed = ("t" :> 3)
    /\ Len(inverse_log.calls) = 3
    /\ inverse_log.calls[1].step = "opt"
    /\ inverse_log.calls[2].kwargs = ("t" :> 6)
    /\ inverse_log.calls[3].kwargs = ("t" :> 5)
    /\ inverse_log.ret = inverse_log.calls[3].ret

(***************************************************************************)
(* The cache wrappers given values that cannot be encoded: as the argument *)
(* of a call, or as the value of the wrapped step.                         *)
(***************************************************************************)
SerializeShapes ==
    { [form |-> "omit", x |-> 0], [form |-> "pos", x |-> 1] }
        \cup { [form |-> "pos", x |-> u] : u \in Unpicklables }

NextSerialize ==
    \/ \E s \in WSteps, shape \in SerializeShapes : DiskExecute(s, shape)
    \/ \E s \in WSteps, shape \in SerializeShapes : MemoryExecute(s, shape)
    \/ \E s \in WSteps, v \in Values \cup Unpicklables : SetValue(s, v)

SpecSerialize == InitCache /\ [][NextSerialize]_vars

\* the call arguments (after defaults) or the step's configuration of the
\* call just made hold a value that cannot be encoded
Unencodable(c) ==
    \/ c.shape.form # "omit" /\ c.shape.x \in Unpicklables
    \/ c.dict["value"] \in Unpicklables

SerializeFailsFastWhereEncoded ==
    [][Len(calls') > Len(calls) =>
        LET c == calls'[Len(calls')]
        IN  /\ ((c.kind = "disk" /\ Unencodable(c))
                  \/ (c.shape.form # "omit" /\ c.shape.x \in Unpicklables))
                => (c.exc = "ValueError" /\ ~c.ran)
            /\ c.exc # "" => (cache' = cache /\ cache_files' = cache_files)]_vars

(***************************************************************************)
(* Claims about the namespaces of the two caches.                          *)
(***************************************************************************)
StepName(i) == calls[i].dict["_name"]

\* the cache file a disk call looks up: its wrapper's directory and its key
CacheFile(i) == <<cache_dir[calls[i].step], calls[i].key>>

\* C19: the memory wrappers share one mapping and no step name enters their
\* keys: calls on steps of different names, alike in arguments and in the
\* rest of the configuration, derive one key, and a call deriving the key of
\* an earlier call on any memory-wrapped step returns that call's result
\* without running the body.  On disk a call only hits an entry that was
\* written by a call whose step had the same name.  (Stated of the latest
\* call j against each earlier call i: the history only grows.)
C19_CacheNamespaces ==
    \A j \in {Len(calls)} \ {0} : \A i \in 1..(j - 1) :
        (calls[i].exc = "" /\ calls[j].exc = "") =>
            /\ (calls[i].kind = "mem" /\ calls[j].kind = "mem") =>
                  /\ (CallArgs(i) = CallArgs(j)
                        /\ calls[i].dict["value"] = calls[j].dict["value"])
                        => calls[i].key = calls[j].key
                  /\ calls[i].key = calls[j].key
                        => /\ calls[j].hit
                           /\ ~calls[j].ran
                           /\ calls[j].result = calls[i].result
            /\ (calls[i].kind = "disk" /\ calls[j].kind = "disk" /\ calls[j].hit
                  /\ ~calls[i].hit /\ CacheFile(i) = CacheFile(j))
                  => StepName(i) = StepName(j)

\* witness: a memory call on S1 stores an entry that a memory call on S2,
\* a step of another name, returns; a disk call writes an entry that a
\* later disk call hits
C19_Witness ==
    \E i, j, k, l \in 1..Len(calls) :
        /\ i < j
        /\ calls[i].kind = "mem" /\ calls[i].step = "S1" /\ ~calls[i].hit
        /\ calls[j].kind = "mem" /\ calls[j].step = "S2" /\ calls[j].hit
        /\ StepName(i) # StepName(j)
        /\ calls[j].result = calls[i].result
        /\ k < l
        /\ calls[k].kind = "disk" /\ calls[l].kind = "disk"
        /\ ~calls[k].hit /\ calls[l].hit
        /\ CacheFile(k) = CacheFile(l)

(***************************************************************************)
(* Claims about a failure inside a composition run.                        *)
(***************************************************************************)
Raised(log) == Len(log) > 0 /\ log[Len(log)][1] = "raise"

\* C20: a composition run does not isolate failures.  When the run() of the
\* pipeline at position k of the order raises, the exception ends the
\* composition run there: the pipelines before k are finished and keep
\* their artifacts, no pipeline after k has been started, and each of those
\* keeps its finished flag and its store as they were; the composition run
\* that failed runs nothing afterwards.
C20_NoFailureIsolation ==
    [][/\ (crun.active /\ cur # Idle /\ out'.op = "run" /\ out'.kind = "raise") =>
            LET k == crun.i
                order == crun.order
            IN  /\ cur.p = order[k]
                /\ ~crun'.active
                /\ cur' = Idle
                /\ crun'.log = Append(crun.log, <<"raise", cur.p>>)
                /\ crun'.i = k
                /\ \A m \in 1..(k - 1) :
                      /\ finished'[order[m]]
                      /\ artifacts'[order[m]] = artifacts[order[m]]
                /\ \A m \in (k + 1)..Len(order) :
                      /\ \A e \in 1..Len(crun'.log) : crun'.log[e][2] # order[m]
                      /\ finished'[order[m]] = finished[order[m]]
                      /\ artifacts'[order[m]] = artifacts[order[m]]
       /\ (~crun.active /\ Raised(crun.log)) =>
            (crun' = crun \/ (crun'.active /\ crun'.log = << >>))]_vars

\* witness: a composition run over at least three pipelines failed at the
\* second: the first is finished and holds its artifact, the failed one and
\* those after it are not finished, and those after it hold nothing
C20_Witness ==
    /\ ~crun.active
    /\ Len(crun.order) >= 3
    /\ Len(crun.log) = 4
    /\ crun.log[2] = <<"end", crun.order[1]>>
    /\ crun.log[4] = <<"raise", crun.order[2]>>
    /\ out.op = "run" /\ out.kind = "raise" /\ out.p = crun.order[2]
    /\ finished[crun.order[1]]
    /\ artifacts[crun.order[1]] # << >>
    /\ \A m \in 2..Len(crun.order) : ~finished[crun.order[m]]
    /\ \A m \in 3..Len(crun.order) : artifacts[crun.order[m]] = << >>

(***************************************************************************)
(* Claims about the order among siblings.                                  *)
(***************************************************************************)
\* children b (listed at i) and d (listed at j) of one parent, neither a
\* descendant of the other
UnorderedSiblings(adj, a, i, j) ==
    LET l == pipelines_get(adj, a)
    IN  /\ i < j
        /\ l[i] # l[j]
        /\ l[i] \notin Descendants(adj, l[j])
        /\ l[j] \notin Descendants(adj, l[i])

\* C21: in the order a composition computes for an acyclic adjacency, of two
\* children of one parent with no ordering constraint between them the one
\* listed earlier in the parent's child list comes before the one listed
\* later.
C21_SiblingsInListedOrder ==
    (crun.c # "-" /\ AcyclicAdjacency(comp_pipelines[crun.c])) =>
        LET adj == comp_pipelines[crun.c]
            order == crun.order
        IN  \A a \in Keys(adj) :
                LET l == pipelines_get(adj, a)
                IN  \A i \in 1..Len(l) : \A j \in 1..Len(l) :
                        (UnorderedSiblings(adj, a, i, j)
                            /\ {l[i], l[j]} \subseteq Range(order))
                        => IndexOf(order, l[i]) < IndexOf(order, l[j])

(***************************************************************************)
(* The two backends side by side: an ArtifactInMemory and an               *)
(* ArtifactInDisk with a directory of its own, both newly constructed, are *)
(* given the same save, get, delete and clear calls.                       *)
(***************************************************************************)
MemStore == "P1"
DiskStore == "P3"

PairCall(op, n, arg, rnf, mem, disk) ==
    [op |-> op, name |-> n, arg |-> arg, rnf |-> rnf, mem |-> mem, disk |-> disk]

\* what artifact_manager.save_artifact(n, v) of store p returns or raises
save_result(p, n, v) ==
    IF save_fails(p, (n :> v)) THEN Raise("FileNotFoundError", n) ELSE Ok(NoneVal)

\* save_artifact(n, v) on both stores
PairSave(n, v) ==
    /\ nops < MaxOps
    /\ nops' = nops + 1
    /\ artifacts' = [q \in DOMAIN artifacts |->
                        IF q \in {MemStore, DiskStore} /\ ~save_fails(q, (n :> v))
                        THEN saved_index(q, (n :> v))
                        ELSE artifacts[q]]
    /\ fs_files' = IF save_fails(DiskStore, (n :> v))
                   THEN fs_files
                   ELSE saved_files(DiskStore, (n :> v))
    /\ store_log' = Append(store_log,
                           PairCall("save", n, v, FALSE, save_result(MemStore, n, v),
                                    save_result(DiskStore, n, v)))
    /\ UNCHANGED fs_dirs
    /\ StoreFrame

\* get_artifact(n, default, raise_not_found) on both stores
PairGet(n, default, raise_not_found) ==
    /\ nops < MaxOps
    /\ nops' = nops + 1
    /\ store_log' = Append(store_log,
                           PairCall("get", n, default, raise_not_found,
                                    manager_get(MemStore, n, default, raise_not_found),
                                    manager_get(DiskStore, n, default, raise_not_found)))
    /\ UNCHANGED <<artifacts, fs_dirs, fs_files>>
    /\ StoreFrame

\* del_artifact(n) on both stores
PairDel(n) ==
    /\ nops < MaxOps
    /\ nops' = nops + 1
    /\ artifacts' = [q \in DOMAIN artifacts |->
                        IF q \in {MemStore, DiskStore}
                        THEN index_after_del(q, n)
                        ELSE artifacts[q]]
    /\ fs_files' = files_after_del(DiskStore, n)
    /\ store_log' = Append(store_log,
                           PairCall("del", n, NoneVal, FALSE, Ok(NoneVal), Ok(NoneVal)))
    /\ UNCHANGED fs_dirs
    /\ StoreFrame

\* what ArtifactInDisk.clear() returns or raises: os.rmdir on a directory
\* that still holds a file
disk_clear_result(p) ==
    IF rmdir_fails(p) THEN Raise("OSError", "") ELSE Ok(NoneVal)

\* clear() on both stores: the dict is emptied; on disk the indexed files
\* are removed, the index emptied and the directory, if there, removed
PairClear ==
    /\ nops < MaxOps
    /\ nops' = nops + 1
    /\ artifacts' = [q \in DOMAIN artifacts |->
                        IF q \in {MemStore, DiskStore} THEN << >> ELSE artifacts[q]]
    /\ fs_files' = files_after_clear(DiskStore)
    /\ fs_dirs' = IF rmdir_fails(DiskStore) THEN fs_dirs ELSE fs_dirs \ {directory(DiskStore)}
    /\ store_log' = Append(store_log,
                           PairCall("clear", "", NoneVal, FALSE, Ok(NoneVal),
                                    disk_clear_result(DiskStore)))
    /\ StoreFrame

InitPair ==
    /\ backend = [p \in Pipelines |-> IF p = MemStore THEN "mem" ELSE "disk"]
    /\ pname = SharedNames
    /\ fs_dirs = {SharedNames[p] : p \in Pipelines \ {MemStore}}
    /\ steps = StepPlan
    /\ artifacts = [p \in Pipelines |-> << >>]
    /\ fs_files = << >>
    /\ finished = [p \in Pipelines |-> FALSE]
    /\ parents = [p \in Pipelines |-> << >>]
    /\ processed_stack = [p \in Pipelines |-> << >>]
    /\ cur = Idle
    /\ runlog = << >>
    /\ stack0 = << >>
    /\ out = NoOut
    /\ nops = 0
    /\ comp_pipelines = << >>
    /\ crun = NoCrun
    /\ CacheConstructed
    /\ store_log = << >>
    /\ inverse_log = NoReverse
    /\ writing = NoWriting

NextPair ==
    \/ \E n \in ArgNames, v \in StoreValues : PairSave(n, v)
    \/ \E n \in ArgNames, d \in Defaults, r \in BOOLEAN : PairGet(n, d, r)
    \/ \E n \in ArgNames : PairDel(n)
    \/ PairClear

SpecPair == InitPair /\ [][NextPair]_vars

\* C22: the same sequence of save, get, delete and clear calls on a newly
\* constructed in-memory store and on a newly constructed disk store gives
\* the same result call by call, and nothing is raised but
\* ArtifactNotFoundError.
C22_BackendsInterchangeable ==
    \A j \in 1..Len(store_log) :
        /\ store_log[j].mem = store_log[j].disk
        /\ store_log[j].disk.kind = "raise" => store_log[j].disk.exc = "ArtifactNotFoundError"

\* what holds of C22: the two stores agree call by call up to the first
\* clear, and on that clear
BackendsAgreeUntilClear ==
    \A j \in 1..Len(store_log) :
        (\A i \in 1..(j - 1) : store_log[i].op # "clear")
            => /\ store_log[j].mem = store_log[j].disk
               /\ store_log[j].disk.kind = "raise"
                     => store_log[j].disk.exc = "ArtifactNotFoundError"

(***************************************************************************)
(* The write of InDiskCacheWrapper.execute step by step.  A caller that    *)
(* misses runs the body and opens the cache file for writing, which        *)
(* creates it empty; pickle.dump then either completes or raises midway    *)
(* (the result holds a value pickle cannot encode, the disk is full),      *)
(* leaving the file as it is.  A caller that finds the file decodes it.    *)
(***************************************************************************)
\* the content of a file that was opened but not written to the end
Truncated == {-3}

AtomicFrame ==
    UNCHANGED <<steps, backend, pname, artifacts, fs_dirs, fs_files, finished, parents,
                processed_stack, cur, runlog, stack0, comp_pipelines, crun, store_log,
                inverse_log, out, step_dict, cache_dir, cache>>

\* caller c enters execute: os.path.exists(cache_file), then pickle.load, or
\* self.step.execute and open(cache_file, "wb")
DiskLookup(c, s, shape) ==
    /\ nops < MaxOps
    /\ nops' = nops + 1
    /\ writing[c] = NoWrite
    /\ ~disk_serialize_fails(s, shape)
    /\ LET key == disk_hash_key(s, shape)
           cache_file == <<cache_dir[s], key>>
       IN  IF cache_file \in DOMAIN cache_files
           THEN /\ calls' = Append(calls,
                                   IF cache_files[cache_file] \in Truncated
                                   THEN FailedCall("disk", s, shape, "EOFError", FALSE)
                                   ELSE CallRecord("disk", s, shape, key, TRUE,
                                                   cache_files[cache_file]))
                /\ UNCHANGED <<cache_files, writing>>
           ELSE /\ cache_files' =
                      (cache_file :> (CHOOSE t \in Truncated : TRUE)) @@ cache_files
                /\ writing' = [writing EXCEPT ![c] =
                                  [step |-> s, shape |-> shape, key |-> key,
                                   file |-> cache_file, result |-> step_execute(s, shape)]]
                /\ UNCHANGED calls
    /\ AtomicFrame

\* pickle.dump(result, f) of caller c: it writes the result, or raises and
\* leaves the file
DiskDump(c, completes) ==
    /\ writing[c] # NoWrite
    /\ LET w == writing[c]
       IN  IF completes
           THEN /\ cache_files' = [cache_files EXCEPT ![w.file] = w.result]
                /\ calls' = Append(calls, CallRecord("disk", w.step, w.shape, w.key, FALSE,
                                                     w.result))
           ELSE /\ calls' = Append(calls, FailedCall("disk", w.step, w.shape,
                                                     "PicklingError", TRUE))
                /\ UNCHANGED cache_files
    /\ writing' = [writing EXCEPT ![c] = NoWrite]
    /\ UNCHANGED nops
    /\ AtomicFrame

NextAtomic ==
    \/ \E c \in Callers, s \in WSteps, shape \in CallShapes : DiskLookup(c, s, shape)
    \/ \E c \in Callers, completes \in BOOLEAN : DiskDump(c, completes)

SpecAtomic == InitCache /\ [][NextAtomic]_vars

\* C23: disk-cache writes are atomic: every cache file that exists holds a
\* complete result, and a call that finds the file of its key, during
\* another call's write or after a write that failed midway, decodes it.
C23_AtomicWrites ==
    /\ \A f \in DOMAIN cache_files : cache_files[f] \notin Truncated
    /\ \A j \in 1..Len(calls) : calls[j].exc # "EOFError"

\* the same with no call in the middle of its write: a write that failed
\* midway has left a file that a later call cannot decode
NoPartialFileAtRest ==
    (\A c \in Callers : writing[c] = NoWrite) => C23_AtomicWrites

(***************************************************************************)
(* Claims about the forms of a call.                                       *)
(***************************************************************************)
\* the value a call gives the parameter x of execute(self, x=0): the
\* argument passed, positionally or by keyword, or the declared default
BoundValue(i) ==
    IF calls[i].shape.form = "omit"
    THEN cached_execute_params[1].default
    ELSE calls[i].shape.x

\* C24: on either wrapper, two calls on one wrapped step under one
\* configuration that give the parameter the same value derive the same key
\* however they are written (argument omitted, default passed explicitly,
\* positional or keyword), and the later one is a hit returning what the
\* earlier one returned.  (Stated of the latest call j against each earlier
\* call i: the history only grows.)
C24_CallFormsShareKey ==
    \A j \in {Len(calls)} \ {0} : \A i \in 1..(j - 1) :
        (/\ calls[i].kind = calls[j].kind
         /\ calls[i].step = calls[j].step
         /\ calls[i].dict = calls[j].dict
         /\ calls[i].exc = "" /\ calls[j].exc = ""
         /\ BoundValue(i) = BoundValue(j))
        => /\ calls[i].key = calls[j].key
           /\ calls[j].hit
           /\ calls[j].result = calls[i].result

\* witness: on one wrapper, execute() misses, then execute(x=0) and
\* execute(0) hit its entry
C24_Witness ==
    /\ Len(calls) = 3
    /\ \A i \in 1..3 : calls[i].kind = calls[1].kind /\ calls[i].step = calls[1].step
    /\ calls[1].shape = [form |-> "omit", x |-> 0] /\ ~calls[1].hit
    /\ calls[2].shape = [form |-> "kw", x |-> 0] /\ calls[2].hit
    /\ calls[3].shape = [form |-> "pos", x |-> 0] /\ calls[3].hit
    /\ calls[3].result = calls[1].result

(***************************************************************************)
(* Claims about the termination of the lookup.                             *)
(***************************************************************************)
\* C25: a lookup through the ancestor chain ends, on every parent graph,
\* with a value, the default or ArtifactNotFoundError; on a graph where a
\* pipeline is reachable from itself through parent links the lookup of a
\* missing name still ends with ArtifactNotFoundError, not with a recursion
\* that runs until the interpreter stops it.
C25_LookupTerminates ==
    out.op = "get_artifact" =>
        \/ out.kind = "ok"
        \/ out.kind = "raise" /\ out.exc = "ArtifactNotFoundError"

\* what holds of C25: on an acyclic parent graph every lookup ends with a
\* value, the default or ArtifactNotFoundError
LookupTerminatesWhenAcyclic ==
    (out.op = "get_artifact" /\ Acyclic(out.p)) =>
        \/ out.kind = "ok"
        \/ out.kind = "raise" /\ out.exc = "ArtifactNotFoundError"

(***************************************************************************)
(* Claims about the history stack of a finished pipeline.                  *)
(***************************************************************************)
\* C26: whenever finished is true the history stack holds exactly the steps
\* the most recent complete run executed, in execution order and each once
\* (with the step list fixed: the step list), whatever runs, failed runs and
\* clears came before; so a reverse_steps call on a finished pipeline makes
\* one execute_inverse call per step.
C26_StackIsLastRun ==
    /\ \A p \in Pipelines : finished[p] => processed_stack[p] = steps[p]
    /\ (out.op = "reverse_steps" /\ finished[out.p]) =>
           Len(inverse_log.calls) = Len(steps[out.p])

\* what holds of C26: a pipeline that has run once to the end, with no
\* failed run and no clear before, holds its steps in its history
StackIsFirstRun ==
    \A p \in Pipelines :
        (RunCompleted /\ out.p = p /\ stack0 = << >>) => processed_stack[p] = steps[p]

(***************************************************************************)
(* Two compositions over the same pipelines, and add_parent calls between  *)
(* the construction of a composition and its run.                          *)
(***************************************************************************)
SharedNodes == {"P1", "P2"}

\* the acyclic adjacencies over the two shared pipelines
SharedAdjacencies == {adj \in Adjacencies : all_pipelines(adj) \subseteq SharedNodes}

NextShared ==
    \/ CompositionInit("K1", SharedAdjacencies)
    \/ CompositionInit("K2", SharedAdjacencies)
    \/ \E p \in SharedNodes : \E q \in SharedNodes \ {p} : AddParent(p, q)
    \/ CompositionRun("K1")
    \/ CompositionRun("K2")
    \/ CompositionRunSkip
    \/ CompositionRunBegin
    \/ RunStep
    \/ RunEnd
    \/ CompositionRunEnd

SpecShared == InitComp /\ [][NextShared]_vars

\* C27: the order a composition run computes, and so what it executes,
\* holds every pipeline its own adjacency references, also when another
\* composition was built over the same pipelines, or add_parent was called
\* on them, after this composition was built.
C27_OwnAdjacencyOnly ==
    crun.c # "-" =>
        /\ all_pipelines(comp_pipelines[crun.c]) \subseteq Range(crun.order)
        /\ (out.op = "comp_run" /\ out.kind = "ok") =>
              {Started[i][2] : i \in 1..Len(Started)} = all_pipelines(comp_pipelines[crun.c])

====
